---- MODULE Spec2Model ----
(***************************************************************************)
(* ShareLit backend revisions as state machines.                           *)
(*                                                                         *)
(*   SpecJ  : src/unnamed/part_000 lines 756-1006, the JSON-file ledger    *)
(*            (users/files/votes arrays mirrored to users.json, files.json *)
(*            and votes.json by saveData).                                 *)
(*   SpecM  : src/unnamed/part_002 with isDB = false, the in-memory        *)
(*            ledger.                                                      *)
(*   SpecV  : a run of part_000 or a run of part_002 in memory, the two    *)
(*            ledgers that keep vote records.                              *)
(*   SpecDB : a run of src/unnamed/part_001 (PostgreSQL) or a run of       *)
(*            part_002 with isDB = true (MariaDB).                         *)
(*   SpecS  : src/backend.js lines 186-375, the filesMeta ledger.          *)
(*   SpecT  : part_002 with isDB settled either way at start.              *)
(*   SpecA  : part_002 from process start, the MariaDB probe pending.      *)
(*   SpecR  : part_000 where the process may stop and start again.         *)
(*   SpecF  : part_000 on a file system whose writes may fail.             *)
(*   SpecC  : part_002 on MariaDB with the connections taken from pool.    *)
(*                                                                         *)
(* A handler is an action; the HTTP status it answers with is an operator  *)
(* over the state the request finds and the request's inputs (XxxStatus),  *)
(* and the action changes the ledger as the handler does on that path.     *)
(* One run executes one revision, named by rev.                            *)
(***************************************************************************)
EXTENDS Integers, Sequences, FiniteSets, Bags, TLC

\* ---------------------------------------------------------------- bounds
\* Logins accepted over a whole run (ids are never reused).
MaxUsers == 2
\* Uploads carrying a file over a whole run (ids are never reused).
MaxFiles == 1
\* /upvote requests a database-backed run takes; upvotes one backend.js
\* record collects.
MaxUpvotes == 3
\* Downloads counted per record in backend.js.
MaxDownloads == 2
\* Connections the MariaDB pool of part_002 hands out (connectionLimit).
MaxConnections == 2

\* ------------------------------------------------------- request inputs
\* The shared admin secret (part_000:804, part_002:41, part_001:27).
ADMINPASSWORD == "Shiro"
\* A body field or header that the request does not carry.
NoValue == "undefined"
\* Names a client may send.
Names == {"admin", "Admin", "bob"}
\* Passwords a client may send.
Passwords == {ADMINPASSWORD, "wrong"}
\* An id parameter that the request does not carry.
NoId == -1

\* String.prototype.toLowerCase on the names above.
toLowerCase(name) == IF name = "Admin" THEN "admin" ELSE name

VARIABLES
  users0,      \* part_000: let users
  files0,      \* part_000: let files
  votes0,      \* part_000: let votes (a bag of <<userId, fileId>>)
  usersFile,   \* part_000: content of data/users.json
  filesFile,   \* part_000: content of data/files.json
  votesFile,   \* part_000: content of data/votes.json
  uploadsDir,  \* part_000: names of the blobs stored in data/uploads
  nextUid0,    \* part_000: supply of genId() values for users
  nextFid0,    \* part_000: supply of multer file names
  users2,      \* part_002: let users
  files2,      \* part_002: let files
  votes2,      \* part_002: let votes, userId -> the fileIds set to true
  isDB,        \* part_002: let isDB
  dbFiles2,    \* part_002: the rows of the MariaDB table files
  nextUid2,    \* part_002: supply of genId() values for users
  nextFid2,    \* part_002: supply of genId() values and AUTO_INCREMENT ids
  upvoted2,    \* part_002: the <<userId, fileId>> whose /upvote updated a row
  held2,       \* part_002: connections taken from pool and not released
  users1,      \* part_001: let users
  files1,      \* part_001: the rows of the PostgreSQL table files
  nextUid1,    \* part_001: supply of genId() values for users
  nextFid1,    \* part_001: supply of the table's serial ids
  upvoted1,    \* part_001: the <<userId, fileId>> whose /upvote updated a row
  filesMeta,   \* backend.js: let filesMeta
  metaFile,    \* backend.js: content of uploads/meta.json
  uploadsB,    \* backend.js: names of the blobs stored in UPLOADS_DIR
  envPassword, \* backend.js: process.env.ADMIN_PASSWORD
  nextFidB,    \* backend.js: supply of multer file names
  rev          \* the revision this run executes

vars0 == <<users0, files0, votes0, usersFile, filesFile, votesFile,
           uploadsDir, nextUid0, nextFid0>>
vars2 == <<users2, files2, votes2, isDB, dbFiles2, nextUid2, nextFid2,
           upvoted2>>
vars1 == <<users1, files1, nextUid1, nextFid1, upvoted1>>
varsB == <<filesMeta, metaFile, uploadsB, envPassword, nextFidB>>
varsC == <<held2>>
vars == <<vars0, vars2, vars1, varsB, varsC, rev>>

\* ------------------------------------------------------------- helpers
\* Array.prototype.findIndex over the id field; 0 stands for JavaScript's -1.
FindIndex(arr, id) ==
  IF \E i \in 1..Len(arr) : arr[i].id = id
  THEN CHOOSE i \in 1..Len(arr) :
         /\ arr[i].id = id
         /\ \A j \in 1..(i - 1) : arr[j].id # id
  ELSE 0

\* Array.prototype.splice(index, 1)
Splice(arr, index) ==
  [i \in 1..(Len(arr) - 1) |-> IF i < index THEN arr[i] ELSE arr[i + 1]]

\* The ids of the records of an array.
Ids(arr) == {arr[i].id : i \in 1..Len(arr)}

\* f => f.isApproved
isApproved(f) == f.isApproved

\* =====================================================================
\* part_000 lines 756-1006: the JSON-file ledger
\* =====================================================================
\* A file record holds the fields a handler reads or writes (id, isApproved,
\* upvotes) and createdAt; originalName, uploaderId, uploaderName and
\* isAnonymous are stored by /upload and read by no handler.

\* A JSON file that does not exist yet.
NoFile == [exists |-> FALSE, data |-> <<>>]

\* JSON.stringify of the files array: a Date is written as an ISO string,
\* booleans, numbers and null are written as they are.
stringifyFiles(data) ==
  [i \in 1..Len(data) |-> [data[i] EXCEPT !.createdAt = "string"]]

\* loadData: the parsed content of an existing file, [] otherwise.
loadData(file) == IF file.exists THEN file.data ELSE <<>>

\* saveData: writeFileSync inside try/catch; a failed write is only logged
\* and leaves the file as it was.
saveData(file, json, writeOk) ==
  IF writeOk THEN [exists |-> TRUE, data |-> json] ELSE file

\* getAdminByIdAndPassword
getAdminByIdAndPassword0(id, password) ==
  \E i \in 1..Len(users0) :
     users0[i].id = id /\ users0[i].isAdmin /\ password = ADMINPASSWORD

\* users.find(u => u.id === userId)
findUser0(userId) == FindIndex(users0, userId)

\* The state after start on an empty data directory.
Init0 ==
  /\ usersFile = NoFile
  /\ filesFile = NoFile
  /\ votesFile = NoFile
  /\ uploadsDir = {}
  /\ users0 = loadData(usersFile)
  /\ files0 = loadData(filesFile)
  /\ votes0 = EmptyBag
  /\ nextUid0 = 1
  /\ nextFid0 = 1

\* POST /admin/login
AdminLoginStatus0(password) == IF password = ADMINPASSWORD THEN 200 ELSE 403

\* users.find(u => u.name === 'admin'), 0 when there is none.
findAdminName0 ==
  IF \E i \in 1..Len(users0) : users0[i].name = "admin"
  THEN CHOOSE i \in 1..Len(users0) :
         /\ users0[i].name = "admin"
         /\ \A j \in 1..(i - 1) : users0[j].name # "admin"
  ELSE 0

\* The user record /admin/login answers with for the correct password:
\* existingAdmin, found by name or created.
existingAdmin0 ==
  IF findAdminName0 # 0
  THEN users0[findAdminName0]
  ELSE [id |-> nextUid0, name |-> "admin", isAdmin |-> TRUE,
        isAnonymous |-> FALSE]

AdminLogin0(password, writeOk) ==
  IF AdminLoginStatus0(password) # 200
  THEN UNCHANGED vars0
  ELSE IF findAdminName0 # 0
  THEN UNCHANGED vars0
  ELSE /\ nextUid0 <= MaxUsers
       /\ users0' = Append(users0, [id |-> nextUid0, name |-> "admin",
                                    isAdmin |-> TRUE, isAnonymous |-> FALSE])
       /\ usersFile' = saveData(usersFile, users0', writeOk)
       /\ nextUid0' = nextUid0 + 1
       /\ UNCHANGED <<files0, votes0, filesFile, votesFile, uploadsDir, nextFid0>>

\* POST /login
LoginStatus0(name, isAnonymous) ==
  IF isAnonymous THEN 200 ELSE IF name = NoValue THEN 400 ELSE 200

\* POST /login without the isAnonymous branch taken first.
Login0_NoAnonymous(name, password, isAnonymous, writeOk) ==
  IF LoginStatus0(name, isAnonymous) # 200
  THEN UNCHANGED vars0
  ELSE /\ nextUid0 <= MaxUsers
       /\ users0' = Append(users0,
            [id |-> nextUid0, name |-> name,
             isAdmin |-> (toLowerCase(name) = "admin"
                          /\ password = ADMINPASSWORD),
             isAnonymous |-> isAnonymous])
       /\ usersFile' = saveData(usersFile, users0', writeOk)
       /\ nextUid0' = nextUid0 + 1
       /\ UNCHANGED <<files0, votes0, filesFile, votesFile, uploadsDir, nextFid0>>

Login0(name, password, isAnonymous, writeOk) ==
  IF LoginStatus0(name, isAnonymous) # 200
  THEN UNCHANGED vars0
  ELSE /\ nextUid0 <= MaxUsers
       /\ users0' = Append(users0,
            IF isAnonymous
            THEN [id |-> nextUid0, name |-> "Anonymous",
                  isAdmin |-> FALSE, isAnonymous |-> TRUE]
            ELSE [id |-> nextUid0, name |-> name,
                  isAdmin |-> (toLowerCase(name) = "admin"
                               /\ password = ADMINPASSWORD),
                  isAnonymous |-> FALSE])
       /\ usersFile' = saveData(usersFile, users0', writeOk)
       /\ nextUid0' = nextUid0 + 1
       /\ UNCHANGED <<files0, votes0, filesFile, votesFile, uploadsDir, nextFid0>>

\* POST /upload. multer's diskStorage has stored an accepted file under a
\* fresh name before the handler runs; a refused file leaves req.file unset.
\* uploaderId is NoId when the body carries none; hasUploaderInfo: the body
\* carries uploaderName or isAnonymous.
UploadStatus0(hasFile, uploaderId, hasUploaderInfo) ==
  IF ~hasFile THEN 400
  ELSE IF uploaderId = NoId /\ ~hasUploaderInfo THEN 400
  ELSE 200

\* The record /upload creates for the uploader.
fileMeta0(id, uploaderId) ==
  [id |-> id, isApproved |-> FALSE, createdAt |-> "Date", upvotes |-> 0]

Upload0(hasFile, uploaderId, hasUploaderInfo, writeOk) ==
  IF ~hasFile
  THEN UNCHANGED vars0
  ELSE /\ nextFid0 <= MaxFiles
       /\ nextFid0' = nextFid0 + 1
       /\ uploadsDir' = uploadsDir \cup {nextFid0}
       /\ IF UploadStatus0(hasFile, uploaderId, hasUploaderInfo) # 200
          THEN UNCHANGED <<files0, filesFile>>
          ELSE /\ files0' = Append(files0, fileMeta0(nextFid0, uploaderId))
               /\ filesFile' = saveData(filesFile, stringifyFiles(files0'), writeOk)
       /\ UNCHANGED <<users0, votes0, usersFile, votesFile, nextUid0>>

\* POST /admin/approve without the 'File already approved' answer.
ApproveStatus0_NoConflict(fileId, adminId, adminPassword) ==
  IF ~getAdminByIdAndPassword0(adminId, adminPassword) THEN 403
  ELSE IF FindIndex(files0, fileId) = 0 THEN 404
  ELSE 200

\* POST /admin/approve
ApproveStatus0(fileId, adminId, adminPassword) ==
  IF ~getAdminByIdAndPassword0(adminId, adminPassword) THEN 403
  ELSE IF FindIndex(files0, fileId) = 0 THEN 404
  ELSE IF files0[FindIndex(files0, fileId)].isApproved THEN 400
  ELSE 200

\* POST /admin/approve written as a toggle: no 'already approved' answer,
\* file.isApproved = !file.isApproved.
Approve0_Toggle(fileId, adminId, adminPassword, writeOk) ==
  IF ApproveStatus0(fileId, adminId, adminPassword) \in {403, 404}
  THEN UNCHANGED vars0
  ELSE /\ files0' = [files0 EXCEPT ![FindIndex(files0, fileId)].isApproved = ~@]
       /\ filesFile' = saveData(filesFile, stringifyFiles(files0'), writeOk)
       /\ UNCHANGED <<users0, votes0, usersFile, votesFile, uploadsDir,
                      nextUid0, nextFid0>>

Approve0(fileId, adminId, adminPassword, writeOk) ==
  IF ApproveStatus0(fileId, adminId, adminPassword) # 200
  THEN UNCHANGED vars0
  ELSE /\ files0' = [files0 EXCEPT ![FindIndex(files0, fileId)].isApproved = TRUE]
       /\ filesFile' = saveData(filesFile, stringifyFiles(files0'), writeOk)
       /\ UNCHANGED <<users0, votes0, usersFile, votesFile, uploadsDir,
                      nextUid0, nextFid0>>

\* POST /admin/reject. unlinkSync sits in a try with an empty catch.
RejectStatus0(fileId, adminId, adminPassword) ==
  IF ~getAdminByIdAndPassword0(adminId, adminPassword) THEN 403
  ELSE IF FindIndex(files0, fileId) = 0 THEN 404
  ELSE 200

Reject0(fileId, adminId, adminPassword, unlinkOk, writeOk) ==
  LET fileIndex == FindIndex(files0, fileId) IN
  IF RejectStatus0(fileId, adminId, adminPassword) # 200
  THEN UNCHANGED vars0
  ELSE /\ uploadsDir' = IF unlinkOk THEN uploadsDir \ {files0[fileIndex].id}
                        ELSE uploadsDir
       /\ files0' = Splice(files0, fileIndex)
       /\ filesFile' = saveData(filesFile, stringifyFiles(files0'), writeOk)
       /\ UNCHANGED <<users0, votes0, usersFile, votesFile, nextUid0, nextFid0>>

\* GET /download/:fileId/:userId
DownloadStatus0(fileId, userId) ==
  IF findUser0(userId) = 0 THEN 403
  ELSE IF FindIndex(files0, fileId) = 0 THEN 404
  ELSE IF fileId \notin uploadsDir THEN 404
  ELSE 200

Download0(fileId, userId) ==
  /\ DownloadStatus0(fileId, userId) \in {200, 403, 404}
  /\ UNCHANGED vars0

\* POST /upvote without the existingVote lookup.
UpvoteStatus0_NoDedup(userId, fileId) ==
  IF findUser0(userId) = 0 \/ FindIndex(files0, fileId) = 0 THEN 400
  ELSE 200

\* POST /upvote
UpvoteStatus0(userId, fileId) ==
  IF findUser0(userId) = 0 \/ FindIndex(files0, fileId) = 0 THEN 400
  ELSE IF BagIn(<<userId, fileId>>, votes0) THEN 400
  ELSE 200

Upvote0(userId, fileId, votesWriteOk, filesWriteOk) ==
  IF UpvoteStatus0(userId, fileId) # 200
  THEN UNCHANGED vars0
  ELSE /\ votes0' = votes0 (+) SetToBag({<<userId, fileId>>})
       /\ votesFile' = saveData(votesFile, votes0', votesWriteOk)
       /\ files0' = [files0 EXCEPT ![FindIndex(files0, fileId)].upvotes = @ + 1]
       /\ filesFile' = saveData(filesFile, stringifyFiles(files0'), filesWriteOk)
       /\ UNCHANGED <<users0, usersFile, uploadsDir, nextUid0, nextFid0>>

\* POST /upvote cut short: the process stops after saveData(votesFile, votes)
\* and before saveData(filesFile, files), and is started again. The arrays
\* of the stopped process are lost; the new one loads the three files.
UpvoteStop0(userId, fileId) ==
  /\ UpvoteStatus0(userId, fileId) = 200
  /\ votesFile' = saveData(votesFile, votes0 (+) SetToBag({<<userId, fileId>>}), TRUE)
  /\ users0' = loadData(usersFile)
  /\ files0' = loadData(filesFile)
  /\ votes0' = votesFile'.data
  /\ UNCHANGED <<usersFile, filesFile, uploadsDir, nextUid0, nextFid0>>

\* GET /files/:userId
FilesStatus0(userId) == IF findUser0(userId) = 0 THEN 403 ELSE 200

\* GET /files with the filter written as f => !f.isApproved.
visibleFiles0_Pending(userId) ==
  LET pending(f) == ~f.isApproved IN
  IF users0[findUser0(userId)].isAdmin THEN files0 ELSE SelectSeq(files0, pending)

\* The list answered to a known user.
visibleFiles0(userId) ==
  IF users0[findUser0(userId)].isAdmin THEN files0 ELSE SelectSeq(files0, isApproved)

ListFiles0(userId) ==
  /\ FilesStatus0(userId) \in {200, 403}
  /\ UNCHANGED vars0

\* GET /admin/stats/:adminId/:adminPassword
StatsStatus0(adminId, adminPassword) ==
  IF ~getAdminByIdAndPassword0(adminId, adminPassword) THEN 403 ELSE 200

\* totalUpvotes: votes.length
totalUpvotes0 == BagCardinality(votes0)

Stats0(adminId, adminPassword) ==
  /\ StatsStatus0(adminId, adminPassword) \in {200, 403}
  /\ UNCHANGED vars0

\* let votes = loadData(votesFile), as the bag the model keeps votes in.
loadVotes(file) == IF file.exists THEN file.data ELSE EmptyBag

\* The process stops between two requests and is started again: the arrays
\* are loaded from users.json, files.json and votes.json.
Restart0 ==
  /\ users0' = loadData(usersFile)
  /\ files0' = loadData(filesFile)
  /\ votes0' = loadVotes(votesFile)
  /\ UNCHANGED <<usersFile, filesFile, votesFile, uploadsDir, nextUid0, nextFid0>>

\* Ids a client may put in a request: every id issued so far, and 0, an id
\* that was never issued.
UserIds0 == 0..(nextUid0 - 1)
FileIds0 == 0..(nextFid0 - 1)

\* =====================================================================
\* part_002: in-memory arrays, or the MariaDB table once isDB is set
\* =====================================================================
\* A file record or table row holds id, isApproved and upvotes; the other
\* columns (originalName, mimeType, fileSize, uploaderId, uploaderName,
\* buffer, createdAt) are stored by /upload and read by no handler. A user
\* record holds id and isAdmin; name and isAnonymous are stored by /login,
\* answered to the client and read by no handler.

\* The arrays and the table as the module's top level leaves them.
Init2(db) ==
  /\ users2 = <<>>
  /\ files2 = <<>>
  /\ votes2 = [u \in {} |-> {}]
  /\ isDB = db
  /\ dbFiles2 = <<>>
  /\ nextUid2 = 1
  /\ nextFid2 = 1
  /\ upvoted2 = {}
  /\ held2 = 0

\* users.find(u => u.id === userId)
findUser2(userId) == FindIndex(users2, userId)

\* user && user.isAdmin
userIsAdmin2(userId) ==
  findUser2(userId) # 0 /\ users2[findUser2(userId)].isAdmin

\* getAdminByIdAndPassword without the password comparison.
getAdminByIdAndPassword2_NoPassword(id, password) ==
  \E i \in 1..Len(users2) : users2[i].id = id /\ users2[i].isAdmin

\* getAdminByIdAndPassword
getAdminByIdAndPassword2(id, password) ==
  \E i \in 1..Len(users2) :
     users2[i].id = id /\ users2[i].isAdmin /\ password = ADMINPASSWORD

\* POST /login
LoginStatus2(name, isAnonymous) ==
  IF isAnonymous THEN 200 ELSE IF name = NoValue THEN 400 ELSE 200

\* The user /login creates, without the isAnonymous branch taken first.
loginUser2_NoAnonymous(id, name, password, isAnonymous) ==
  [id |-> id,
   isAdmin |-> (toLowerCase(name) = "admin" /\ password = ADMINPASSWORD),
   isAnonymous |-> isAnonymous]

\* The user /login creates.
loginUser2(id, name, password, isAnonymous) ==
  IF isAnonymous
  THEN [id |-> id, isAdmin |-> FALSE, isAnonymous |-> TRUE]
  ELSE [id |-> id,
        isAdmin |-> (toLowerCase(name) = "admin" /\ password = ADMINPASSWORD),
        isAnonymous |-> FALSE]

\* The fields of a user record that handlers read.
stored(user) == [id |-> user.id, isAdmin |-> user.isAdmin]

Login2(name, password, isAnonymous) ==
  IF LoginStatus2(name, isAnonymous) # 200
  THEN UNCHANGED vars2
  ELSE /\ nextUid2 <= MaxUsers
       /\ users2' = Append(users2, stored(loginUser2(nextUid2, name, password, isAnonymous)))
       /\ nextUid2' = nextUid2 + 1
       /\ UNCHANGED <<files2, votes2, isDB, dbFiles2, nextFid2, upvoted2>>

\* POST /upload. uploaderId is NoId when the body carries none.
UploadStatus2(hasFile, uploaderId, hasName, isAnonymous, queryOk) ==
  IF ~hasFile THEN 400
  ELSE IF uploaderId = NoId \/ (~isAnonymous /\ ~hasName) THEN 400
  ELSE IF isDB /\ ~queryOk THEN 500
  ELSE 200

\* The record /upload pushes, and the row it inserts.
newFile2(id) == [id |-> id, isApproved |-> FALSE, upvotes |-> 0]

Upload2(hasFile, uploaderId, hasName, isAnonymous, queryOk) ==
  IF UploadStatus2(hasFile, uploaderId, hasName, isAnonymous, queryOk) # 200
  THEN UNCHANGED vars2
  ELSE /\ nextFid2 <= MaxFiles
       /\ nextFid2' = nextFid2 + 1
       /\ IF isDB
          THEN /\ dbFiles2' = Append(dbFiles2, newFile2(nextFid2))
               /\ UNCHANGED files2
          ELSE /\ files2' = Append(files2, newFile2(nextFid2))
               /\ UNCHANGED dbFiles2
       /\ UNCHANGED <<users2, votes2, isDB, nextUid2, upvoted2>>

\* UPDATE files SET isApproved=1 WHERE id=?
SetApproved(rows, fileId) ==
  [i \in 1..Len(rows) |->
     IF rows[i].id = fileId THEN [rows[i] EXCEPT !.isApproved = TRUE] ELSE rows[i]]

\* POST /admin/approve
ApproveStatus2(fileId, adminId, adminPassword, queryOk) ==
  IF ~getAdminByIdAndPassword2(adminId, adminPassword) THEN 403
  ELSE IF isDB THEN (IF queryOk THEN 200 ELSE 500)
  ELSE IF FindIndex(files2, fileId) = 0 THEN 404
  ELSE 200

Approve2(fileId, adminId, adminPassword, queryOk) ==
  IF ApproveStatus2(fileId, adminId, adminPassword, queryOk) # 200
  THEN UNCHANGED vars2
  ELSE /\ IF isDB
          THEN /\ dbFiles2' = SetApproved(dbFiles2, fileId)
               /\ UNCHANGED files2
          ELSE /\ files2' = [files2 EXCEPT ![FindIndex(files2, fileId)].isApproved = TRUE]
               /\ UNCHANGED dbFiles2
       /\ UNCHANGED <<users2, votes2, isDB, nextUid2, nextFid2, upvoted2>>

\* f => f.id !== fileId, for files.filter and DELETE FROM files WHERE id=?
WithoutId(rows, fileId) ==
  LET keep(f) == f.id # fileId IN SelectSeq(rows, keep)

\* POST /admin/reject
RejectStatus2(fileId, adminId, adminPassword, queryOk) ==
  IF ~getAdminByIdAndPassword2(adminId, adminPassword) THEN 403
  ELSE IF isDB /\ ~queryOk THEN 500
  ELSE 200

Reject2(fileId, adminId, adminPassword, queryOk) ==
  IF RejectStatus2(fileId, adminId, adminPassword, queryOk) # 200
  THEN UNCHANGED vars2
  ELSE /\ IF isDB
          THEN /\ dbFiles2' = WithoutId(dbFiles2, fileId)
               /\ UNCHANGED files2
          ELSE /\ files2' = WithoutId(files2, fileId)
               /\ UNCHANGED dbFiles2
       /\ UNCHANGED <<users2, votes2, isDB, nextUid2, nextFid2, upvoted2>>

\* GET /download with the gate written as (!file.isApproved && !user): any
\* logged-in user passes.
DownloadStatus2_AnyUser(fileId, userId, queryOk) ==
  LET rows == IF isDB THEN dbFiles2 ELSE files2
      fi == FindIndex(rows, fileId)
  IN
  IF isDB /\ ~queryOk THEN 500
  ELSE IF fi = 0 THEN 404
  ELSE IF ~rows[fi].isApproved /\ findUser2(userId) = 0 THEN 403
  ELSE 200

\* GET /download/:fileId/:userId
DownloadStatus2(fileId, userId, queryOk) ==
  LET rows == IF isDB THEN dbFiles2 ELSE files2
      fi == FindIndex(rows, fileId)
  IN
  IF isDB /\ ~queryOk THEN 500
  ELSE IF fi = 0 THEN 404
  ELSE IF ~rows[fi].isApproved /\ ~userIsAdmin2(userId) THEN 403
  ELSE 200

Download2(fileId, userId, queryOk) ==
  /\ DownloadStatus2(fileId, userId, queryOk) \in {200, 403, 404, 500}
  /\ UNCHANGED vars2

\* if (!votes[userId]) votes[userId] = {}
votesEntry2(userId) ==
  [u \in DOMAIN votes2 \cup {userId} |->
     IF u \in DOMAIN votes2 THEN votes2[u] ELSE {}]

\* files.find(f => f.id === fileId && f.isApproved), 0 when there is none.
findApproved2(fileId) ==
  IF \E i \in 1..Len(files2) : files2[i].id = fileId /\ files2[i].isApproved
  THEN CHOOSE i \in 1..Len(files2) :
         /\ files2[i].id = fileId /\ files2[i].isApproved
         /\ \A j \in 1..(i - 1) : ~(files2[j].id = fileId /\ files2[j].isApproved)
  ELSE 0

\* POST /upvote, in-memory branch: the status.
UpvoteStatus2(userId, fileId) ==
  IF fileId \in votesEntry2(userId)[userId] THEN 400
  ELSE IF findApproved2(fileId) = 0 THEN 404
  ELSE 200

\* UPDATE files SET upvotes = upvotes + 1 WHERE id=?
IncUpvotes(rows, fileId) ==
  [i \in 1..Len(rows) |->
     IF rows[i].id = fileId THEN [rows[i] EXCEPT !.upvotes = @ + 1] ELSE rows[i]]

\* POST /upvote, isDB branch: the status. userId is not read.
UpvoteStatusDB2(queryOk) == IF queryOk THEN 200 ELSE 500

\* POST /upvote whose in-memory branch writes file.upvotes-- for file.upvotes++.
Upvote2_Decrement(userId, fileId, queryOk) ==
  IF isDB
  THEN IF UpvoteStatusDB2(queryOk) # 200
       THEN UNCHANGED vars2
       ELSE /\ \A i \in 1..Len(dbFiles2) : dbFiles2[i].upvotes < MaxUpvotes
            /\ dbFiles2' = IncUpvotes(dbFiles2, fileId)
            /\ upvoted2' = IF FindIndex(dbFiles2, fileId) # 0
                           THEN upvoted2 \cup {<<userId, fileId>>}
                           ELSE upvoted2
            /\ UNCHANGED <<users2, files2, votes2, isDB, nextUid2, nextFid2>>
  ELSE IF UpvoteStatus2(userId, fileId) \in {400, 404}
  THEN /\ votes2' = votesEntry2(userId)
       /\ UNCHANGED <<users2, files2, isDB, dbFiles2, nextUid2, nextFid2, upvoted2>>
  ELSE /\ files2' = [files2 EXCEPT ![findApproved2(fileId)].upvotes = @ - 1]
       /\ votes2' = [votesEntry2(userId) EXCEPT ![userId] = @ \cup {fileId}]
       /\ UNCHANGED <<users2, isDB, dbFiles2, nextUid2, nextFid2, upvoted2>>

\* POST /upvote. The isDB branch runs one UPDATE, which the database applies
\* atomically, so the awaits around it add no interleaving of their own.
Upvote2(userId, fileId, queryOk) ==
  IF isDB
  THEN IF UpvoteStatusDB2(queryOk) # 200
       THEN UNCHANGED vars2
       ELSE /\ \A i \in 1..Len(dbFiles2) : dbFiles2[i].upvotes < MaxUpvotes
            /\ dbFiles2' = IncUpvotes(dbFiles2, fileId)
            /\ upvoted2' = IF FindIndex(dbFiles2, fileId) # 0
                           THEN upvoted2 \cup {<<userId, fileId>>}
                           ELSE upvoted2
            /\ UNCHANGED <<users2, files2, votes2, isDB, nextUid2, nextFid2>>
  ELSE IF UpvoteStatus2(userId, fileId) = 400
  THEN /\ votes2' = votesEntry2(userId)
       /\ UNCHANGED <<users2, files2, isDB, dbFiles2, nextUid2, nextFid2, upvoted2>>
  ELSE IF UpvoteStatus2(userId, fileId) = 404
  THEN /\ votes2' = votesEntry2(userId)
       /\ UNCHANGED <<users2, files2, isDB, dbFiles2, nextUid2, nextFid2, upvoted2>>
  ELSE /\ files2' = [files2 EXCEPT ![findApproved2(fileId)].upvotes = @ + 1]
       /\ votes2' = [votesEntry2(userId) EXCEPT ![userId] = @ \cup {fileId}]
       /\ UNCHANGED <<users2, isDB, dbFiles2, nextUid2, nextFid2, upvoted2>>

\* GET /files with the test written as (user ? files : ...): any logged-in
\* user is answered every record.
visibleFiles2_AnyUser(userId) ==
  LET rows == IF isDB THEN dbFiles2 ELSE files2 IN
  IF findUser2(userId) # 0 THEN rows ELSE SelectSeq(rows, isApproved)

\* GET /files/:userId : the list answered.
visibleFiles2(userId) ==
  LET rows == IF isDB THEN dbFiles2 ELSE files2 IN
  IF userIsAdmin2(userId) THEN rows ELSE SelectSeq(rows, isApproved)

ListFiles2(userId, queryOk) ==
  /\ (IF isDB /\ ~queryOk THEN 500 ELSE 200) \in {200, 500}
  /\ UNCHANGED vars2

\* The startup probe (async () => { ... })(): `await pool.query('SELECT 1')`
\* resolves at some moment while requests are already served from memory,
\* and isDB becomes true. When the query throws, isDB stays false.
Probe2 ==
  /\ ~isDB
  /\ isDB' = TRUE
  /\ UNCHANGED <<users2, files2, votes2, dbFiles2, nextUid2, nextFid2, upvoted2>>

\* The connection of one database branch:
\*   try { conn = await pool.getConnection(); await conn.query(...);
\*         conn.release(); ... } catch (err) { res.status(500) }
\* reaches: the handler gets to its isDB branch; connOk: getConnection
\* resolves, which needs a free connection; queryOk: the query resolves.
\* When the query throws, control goes to catch and release() is skipped.
connection2(reaches, connOk, queryOk) ==
  /\ (reaches /\ connOk) => held2 < MaxConnections
  /\ held2' = IF reaches /\ connOk /\ ~queryOk THEN held2 + 1 ELSE held2

UserIds2 == 0..(nextUid2 - 1)
FileIds2 == 0..(nextFid2 - 1)

\* =====================================================================
\* part_001: PostgreSQL table files, users in memory
\* =====================================================================
\* Rows and user records hold the same fields as in part_002.

Init1 ==
  /\ users1 = <<>>
  /\ files1 = <<>>
  /\ nextUid1 = 1
  /\ nextFid1 = 1
  /\ upvoted1 = {}

\* user && user.isAdmin
userIsAdmin1(userId) ==
  FindIndex(users1, userId) # 0 /\ users1[FindIndex(users1, userId)].isAdmin

\* getAdminByIdAndPassword
getAdminByIdAndPassword1(id, password) ==
  \E i \in 1..Len(users1) :
     users1[i].id = id /\ users1[i].isAdmin /\ password = ADMINPASSWORD

\* POST /login, the same text as part_002's.
Login1(name, password, isAnonymous) ==
  IF ~isAnonymous /\ name = NoValue
  THEN UNCHANGED vars1
  ELSE /\ nextUid1 <= MaxUsers
       /\ users1' = Append(users1,
                           stored(loginUser2(nextUid1, name, password, isAnonymous)))
       /\ nextUid1' = nextUid1 + 1
       /\ UNCHANGED <<files1, nextFid1, upvoted1>>

\* POST /upload
UploadStatus1(hasFile, uploaderId, hasName, isAnonymous, queryOk) ==
  IF ~hasFile THEN 400
  ELSE IF uploaderId = NoId \/ (~isAnonymous /\ ~hasName) THEN 400
  ELSE IF ~queryOk THEN 500
  ELSE 200

Upload1(hasFile, uploaderId, hasName, isAnonymous, queryOk) ==
  IF UploadStatus1(hasFile, uploaderId, hasName, isAnonymous, queryOk) # 200
  THEN UNCHANGED vars1
  ELSE /\ nextFid1 <= MaxFiles
       /\ files1' = Append(files1,
                           [id |-> nextFid1, isApproved |-> FALSE, upvotes |-> 0])
       /\ nextFid1' = nextFid1 + 1
       /\ UNCHANGED <<users1, nextUid1, upvoted1>>

\* POST /admin/approve
ApproveStatus1(adminId, adminPassword, queryOk) ==
  IF ~getAdminByIdAndPassword1(adminId, adminPassword) THEN 403
  ELSE IF ~queryOk THEN 500
  ELSE 200

Approve1(fileId, adminId, adminPassword, queryOk) ==
  IF ApproveStatus1(adminId, adminPassword, queryOk) # 200
  THEN UNCHANGED vars1
  ELSE /\ files1' = SetApproved(files1, fileId)
       /\ UNCHANGED <<users1, nextUid1, nextFid1, upvoted1>>

\* POST /admin/reject
Reject1(fileId, adminId, adminPassword, queryOk) ==
  IF ApproveStatus1(adminId, adminPassword, queryOk) # 200
  THEN UNCHANGED vars1
  ELSE /\ files1' = WithoutId(files1, fileId)
       /\ UNCHANGED <<users1, nextUid1, nextFid1, upvoted1>>

\* GET /download/:fileId/:userId
DownloadStatus1(fileId, userId, queryOk) ==
  LET fi == FindIndex(files1, fileId) IN
  IF ~queryOk THEN 500
  ELSE IF fi = 0 THEN 404
  ELSE IF ~files1[fi].isApproved /\ ~userIsAdmin1(userId) THEN 403
  ELSE 200

Download1(fileId, userId, queryOk) ==
  /\ DownloadStatus1(fileId, userId, queryOk) \in {200, 403, 404, 500}
  /\ UNCHANGED vars1

\* POST /upvote: the status. userId is not read.
UpvoteStatus1(queryOk) == IF queryOk THEN 200 ELSE 500

\* POST /upvote: one UPDATE, applied atomically by the database.
Upvote1(userId, fileId, queryOk) ==
  IF UpvoteStatus1(queryOk) # 200
  THEN UNCHANGED vars1
  ELSE /\ \A i \in 1..Len(files1) : files1[i].upvotes < MaxUpvotes
       /\ files1' = IncUpvotes(files1, fileId)
       /\ upvoted1' = IF FindIndex(files1, fileId) # 0
                      THEN upvoted1 \cup {<<userId, fileId>>}
                      ELSE upvoted1
       /\ UNCHANGED <<users1, nextUid1, nextFid1>>

\* GET /files/:userId : the rows answered.
visibleFiles1(userId) ==
  IF userIsAdmin1(userId) THEN files1 ELSE SelectSeq(files1, isApproved)

ListFiles1(userId, queryOk) ==
  /\ (IF queryOk THEN 200 ELSE 500) \in {200, 500}
  /\ UNCHANGED vars1

UserIds1 == 0..(nextUid1 - 1)
FileIds1 == 0..(nextFid1 - 1)

\* =====================================================================
\* backend.js lines 186-375: filesMeta mirrored to uploads/meta.json
\* =====================================================================
\* A record holds id, uploader, approved, upvotes and downloads;
\* originalname, uploadDate and comments are read by no handler.

InitB(env) ==
  /\ filesMeta = <<>>
  /\ metaFile = NoFile
  /\ uploadsB = {}
  /\ envPassword = env
  /\ nextFidB = 1

\* saveMeta: writeFileSync outside any try; a failed write throws and the
\* request ends with Express's 500.
saveMeta(file, data, writeOk) ==
  IF writeOk THEN [exists |-> TRUE, data |-> data] ELSE file

\* req.headers['x-admin-password'] || req.body.password
presented(headerPw, bodyPw) == IF headerPw # NoValue THEN headerPw ELSE bodyPw

\* adminAuth lets the request through.
adminAuth(headerPw, bodyPw) == presented(headerPw, bodyPw) = envPassword

\* req.headers['x-admin-password'] === process.env.ADMIN_PASSWORD
headerIsAdmin(headerPw) == headerPw = envPassword

\* POST /upload, the handler. multer's diskStorage has stored the file under
\* a fresh name before the handler runs; hasFile: req.file is set.
UploadStatusB(hasFile, uploader, writeOk) ==
  IF ~hasFile \/ uploader = NoValue THEN 400
  ELSE IF ~writeOk THEN 500
  ELSE 200

\* The record /upload creates.
metaB(id, uploader) ==
  [id |-> id, uploader |-> uploader, downloads |-> 0, upvotes |-> 0,
   approved |-> (toLowerCase(uploader) = "admin")]

UploadB(hasFile, uploader, headerPw, writeOk) ==
  IF ~hasFile
  THEN UNCHANGED varsB
  ELSE /\ nextFidB <= MaxFiles
       /\ nextFidB' = nextFidB + 1
       /\ uploadsB' = uploadsB \cup {nextFidB}
       /\ IF uploader = NoValue
          THEN UNCHANGED <<filesMeta, metaFile>>
          ELSE /\ filesMeta' = <<metaB(nextFidB, uploader)>> \o filesMeta
               /\ metaFile' = saveMeta(metaFile, filesMeta', writeOk)
       /\ UNCHANGED envPassword

\* limits: { fileSize: 10 * 1024 * 1024 }
maxFileSizeB == 10 * 1024 * 1024

\* Declared MIME types and sizes of the file part of an upload.
MimeTypes == {"application/pdf", "application/x-msdownload"}
Sizes == {1024, maxFileSizeB + 1}

\* upload.single('file') in front of the handler: multer is configured with
\* the size limit only (no fileFilter), so a file over the limit fails the
\* request before the handler runs and every other file reaches it as
\* req.file, whatever its MIME type. attached: the request has a file part.
UploadFileStatusB(attached, mimetype, size, uploader, writeOk) ==
  IF attached /\ size > maxFileSizeB THEN 500
  ELSE UploadStatusB(attached, uploader, writeOk)

UploadFileB(attached, mimetype, size, uploader, headerPw, writeOk) ==
  IF attached /\ size > maxFileSizeB
  THEN UNCHANGED varsB
  ELSE UploadB(attached, uploader, headerPw, writeOk)

\* f => f.approved
approved(f) == f.approved

\* GET /files : the list answered.
visibleFilesB(headerPw) ==
  IF headerIsAdmin(headerPw) THEN filesMeta ELSE SelectSeq(filesMeta, approved)

ListFilesB(headerPw) ==
  /\ Len(visibleFilesB(headerPw)) <= Len(filesMeta)
  /\ UNCHANGED varsB

\* GET /download/:id
DownloadStatusB(id, headerPw, writeOk) ==
  LET fi == FindIndex(filesMeta, id) IN
  IF fi = 0 THEN 404
  ELSE IF ~filesMeta[fi].approved /\ ~headerIsAdmin(headerPw) THEN 403
  ELSE IF id \notin uploadsB THEN 404
  ELSE IF ~writeOk THEN 500
  ELSE 200

DownloadB(id, headerPw, writeOk) ==
  LET fi == FindIndex(filesMeta, id)
      status == DownloadStatusB(id, headerPw, writeOk)
  IN
  IF status \in {403, 404}
  THEN UNCHANGED varsB
  ELSE /\ filesMeta[fi].downloads < MaxDownloads
       /\ filesMeta' = [filesMeta EXCEPT ![fi].downloads = @ + 1]
       /\ metaFile' = saveMeta(metaFile, filesMeta', writeOk)
       /\ UNCHANGED <<uploadsB, envPassword, nextFidB>>

\* POST /upvote/:id
UpvoteStatusB(id, writeOk) ==
  IF FindIndex(filesMeta, id) = 0 THEN 404
  ELSE IF ~writeOk THEN 500
  ELSE 200

UpvoteB(id, writeOk) ==
  LET fi == FindIndex(filesMeta, id) IN
  IF fi = 0
  THEN UNCHANGED varsB
  ELSE /\ filesMeta[fi].upvotes < MaxUpvotes
       /\ filesMeta' = [filesMeta EXCEPT ![fi].upvotes = @ + 1]
       /\ metaFile' = saveMeta(metaFile, filesMeta', writeOk)
       /\ UNCHANGED <<uploadsB, envPassword, nextFidB>>

\* POST /approve/:id
ApproveStatusB(id, headerPw, bodyPw, writeOk) ==
  IF ~adminAuth(headerPw, bodyPw) THEN 401
  ELSE IF FindIndex(filesMeta, id) = 0 THEN 404
  ELSE IF ~writeOk THEN 500
  ELSE 200

ApproveB(id, headerPw, bodyPw, writeOk) ==
  IF ApproveStatusB(id, headerPw, bodyPw, writeOk) \in {401, 404}
  THEN UNCHANGED varsB
  ELSE /\ filesMeta' = [filesMeta EXCEPT ![FindIndex(filesMeta, id)].approved = TRUE]
       /\ metaFile' = saveMeta(metaFile, filesMeta', writeOk)
       /\ UNCHANGED <<uploadsB, envPassword, nextFidB>>

\* DELETE /reject/:id. unlinkSync and saveMeta sit outside any try.
RejectStatusB(id, headerPw, bodyPw, unlinkOk, writeOk) ==
  IF ~adminAuth(headerPw, bodyPw) THEN 401
  ELSE IF FindIndex(filesMeta, id) = 0 THEN 404
  ELSE IF id \in uploadsB /\ ~unlinkOk THEN 500
  ELSE IF ~writeOk THEN 500
  ELSE 200

RejectB(id, headerPw, bodyPw, unlinkOk, writeOk) ==
  IF RejectStatusB(id, headerPw, bodyPw, unlinkOk, writeOk) \in {401, 404}
  THEN UNCHANGED varsB
  ELSE IF id \in uploadsB /\ ~unlinkOk
  THEN UNCHANGED varsB
  ELSE /\ uploadsB' = uploadsB \ {id}
       /\ filesMeta' = Splice(filesMeta, FindIndex(filesMeta, id))
       /\ metaFile' = saveMeta(metaFile, filesMeta', writeOk)
       /\ UNCHANGED <<envPassword, nextFidB>>

\* DELETE /delete/:id, behind adminAuth.
DeleteStatusB(id, headerPw, bodyPw, bodyUploader, unlinkOk, writeOk) ==
  LET fi == FindIndex(filesMeta, id) IN
  IF ~adminAuth(headerPw, bodyPw) THEN 401
  ELSE IF fi = 0 THEN 404
  ELSE IF ~headerIsAdmin(headerPw) /\ bodyUploader # filesMeta[fi].uploader THEN 403
  ELSE IF id \in uploadsB /\ ~unlinkOk THEN 500
  ELSE IF ~writeOk THEN 500
  ELSE 200

DeleteB(id, headerPw, bodyPw, bodyUploader, unlinkOk, writeOk) ==
  IF DeleteStatusB(id, headerPw, bodyPw, bodyUploader, unlinkOk, writeOk)
       \in {401, 403, 404}
  THEN UNCHANGED varsB
  ELSE IF id \in uploadsB /\ ~unlinkOk
  THEN UNCHANGED varsB
  ELSE /\ uploadsB' = uploadsB \ {id}
       /\ filesMeta' = Splice(filesMeta, FindIndex(filesMeta, id))
       /\ metaFile' = saveMeta(metaFile, filesMeta', writeOk)
       /\ UNCHANGED <<envPassword, nextFidB>>

FileIdsB == 0..(nextFidB - 1)
\* Passwords a header or a body may carry, or none.
PasswordsB == Passwords \cup {NoValue}

\* =====================================================================
\* Requests
\* =====================================================================
\* What a step of one revision leaves alone.
others0 == <<vars1, vars2, varsB, varsC, rev>>
others1 == <<vars0, vars2, varsB, varsC, rev>>
others2 == <<vars0, vars1, varsB, varsC, rev>>
othersB == <<vars0, vars1, vars2, varsC, rev>>

\* Outcomes of a write or an unlink on a healthy file system.
Done == {TRUE}

\* ------------------------------------------------ requests to part_000
AdminLoginJ ==
  /\ rev = "part_000"
  /\ \E pw \in Passwords, ok \in Done : AdminLogin0(pw, ok)
  /\ UNCHANGED others0

LoginJ ==
  /\ rev = "part_000"
  /\ \E n \in Names \cup {NoValue}, pw \in Passwords, anon \in BOOLEAN, ok \in Done :
        Login0(n, pw, anon, ok)
  /\ UNCHANGED others0

UploadJ ==
  /\ rev = "part_000"
  /\ \E hasFile \in BOOLEAN, u \in UserIds0 \cup {NoId}, info \in BOOLEAN, ok \in Done :
        Upload0(hasFile, u, info, ok)
  /\ UNCHANGED others0

ApproveJ ==
  /\ rev = "part_000"
  /\ \E f \in FileIds0, a \in UserIds0, pw \in Passwords, ok \in Done :
        Approve0(f, a, pw, ok)
  /\ UNCHANGED others0

RejectJ ==
  /\ rev = "part_000"
  /\ \E f \in FileIds0, a \in UserIds0, pw \in Passwords, unlinkOk \in Done, ok \in Done :
        Reject0(f, a, pw, unlinkOk, ok)
  /\ UNCHANGED others0

DownloadJ ==
  /\ rev = "part_000"
  /\ \E f \in FileIds0, u \in UserIds0 : Download0(f, u)
  /\ UNCHANGED others0

UpvoteJ ==
  /\ rev = "part_000"
  /\ \E u \in UserIds0, f \in FileIds0, okV \in Done, okF \in Done :
        Upvote0(u, f, okV, okF)
  /\ UNCHANGED others0

ListFilesJ ==
  /\ rev = "part_000"
  /\ \E u \in UserIds0 : ListFiles0(u)
  /\ UNCHANGED others0

StatsJ ==
  /\ rev = "part_000"
  /\ \E a \in UserIds0, pw \in Passwords : Stats0(a, pw)
  /\ UNCHANGED others0

RestartJ == rev = "part_000" /\ Restart0 /\ UNCHANGED others0

UpvoteStopJ ==
  /\ rev = "part_000"
  /\ \E u \in UserIds0, f \in FileIds0 : UpvoteStop0(u, f)
  /\ UNCHANGED others0

\* The mutating requests to part_000 on a file system whose writes and
\* unlinks may fail.
AdminLoginF ==
  /\ rev = "part_000"
  /\ \E pw \in Passwords, ok \in BOOLEAN : AdminLogin0(pw, ok)
  /\ UNCHANGED others0

LoginF ==
  /\ rev = "part_000"
  /\ \E n \in Names \cup {NoValue}, pw \in Passwords, anon \in BOOLEAN,
        ok \in BOOLEAN :
        Login0(n, pw, anon, ok)
  /\ UNCHANGED others0

UploadF ==
  /\ rev = "part_000"
  /\ \E hasFile \in BOOLEAN, u \in UserIds0 \cup {NoId}, info \in BOOLEAN,
        ok \in BOOLEAN :
        Upload0(hasFile, u, info, ok)
  /\ UNCHANGED others0

ApproveF ==
  /\ rev = "part_000"
  /\ \E f \in FileIds0, a \in UserIds0, pw \in Passwords, ok \in BOOLEAN :
        Approve0(f, a, pw, ok)
  /\ UNCHANGED others0

RejectF ==
  /\ rev = "part_000"
  /\ \E f \in FileIds0, a \in UserIds0, pw \in Passwords, unlinkOk \in BOOLEAN,
        ok \in BOOLEAN :
        Reject0(f, a, pw, unlinkOk, ok)
  /\ UNCHANGED others0

UpvoteF ==
  /\ rev = "part_000"
  /\ \A i \in 1..Len(files0) : files0[i].upvotes < MaxUpvotes
  /\ \E u \in UserIds0, f \in FileIds0, okV \in BOOLEAN, okF \in BOOLEAN :
        Upvote0(u, f, okV, okF)
  /\ UNCHANGED others0

\* ------------------------------------------------ requests to part_002
LoginM ==
  /\ rev = "part_002"
  /\ \E n \in Names \cup {NoValue}, pw \in Passwords, anon \in BOOLEAN :
        Login2(n, pw, anon)
  /\ UNCHANGED others2

UploadM ==
  /\ rev = "part_002"
  /\ \E hasFile \in BOOLEAN, u \in UserIds2 \cup {NoId}, hasName \in BOOLEAN,
        anon \in BOOLEAN, ok \in BOOLEAN :
        Upload2(hasFile, u, hasName, anon, ok)
  /\ UNCHANGED others2

ApproveM ==
  /\ rev = "part_002"
  /\ \E f \in FileIds2, a \in UserIds2, pw \in Passwords, ok \in BOOLEAN :
        Approve2(f, a, pw, ok)
  /\ UNCHANGED others2

RejectM ==
  /\ rev = "part_002"
  /\ \E f \in FileIds2, a \in UserIds2, pw \in Passwords, ok \in BOOLEAN :
        Reject2(f, a, pw, ok)
  /\ UNCHANGED others2

DownloadM ==
  /\ rev = "part_002"
  /\ \E f \in FileIds2, u \in UserIds2, ok \in BOOLEAN : Download2(f, u, ok)
  /\ UNCHANGED others2

UpvoteM ==
  /\ rev = "part_002"
  /\ \E u \in UserIds2, f \in FileIds2, ok \in BOOLEAN : Upvote2(u, f, ok)
  /\ UNCHANGED others2

ListFilesM ==
  /\ rev = "part_002"
  /\ \E u \in UserIds2, ok \in BOOLEAN : ListFiles2(u, ok)
  /\ UNCHANGED others2

\* The requests to part_002 with the connection each database branch takes.
UploadC ==
  /\ rev = "part_002"
  /\ \E hasFile \in BOOLEAN, u \in UserIds2 \cup {NoId}, hasName \in BOOLEAN,
        anon \in BOOLEAN, connOk \in BOOLEAN, queryOk \in BOOLEAN :
        /\ Upload2(hasFile, u, hasName, anon, connOk /\ queryOk)
        /\ connection2(isDB /\ UploadStatus2(hasFile, u, hasName, anon, FALSE) = 500,
                       connOk, queryOk)
  /\ UNCHANGED <<vars0, vars1, varsB, rev>>

ApproveC ==
  /\ rev = "part_002"
  /\ \E f \in FileIds2, a \in UserIds2, pw \in Passwords, connOk \in BOOLEAN,
        queryOk \in BOOLEAN :
        /\ Approve2(f, a, pw, connOk /\ queryOk)
        /\ connection2(isDB /\ ApproveStatus2(f, a, pw, FALSE) = 500,
                       connOk, queryOk)
  /\ UNCHANGED <<vars0, vars1, varsB, rev>>

RejectC ==
  /\ rev = "part_002"
  /\ \E f \in FileIds2, a \in UserIds2, pw \in Passwords, connOk \in BOOLEAN,
        queryOk \in BOOLEAN :
        /\ Reject2(f, a, pw, connOk /\ queryOk)
        /\ connection2(isDB /\ RejectStatus2(f, a, pw, FALSE) = 500,
                       connOk, queryOk)
  /\ UNCHANGED <<vars0, vars1, varsB, rev>>

DownloadC ==
  /\ rev = "part_002"
  /\ \E f \in FileIds2, u \in UserIds2, connOk \in BOOLEAN, queryOk \in BOOLEAN :
        /\ Download2(f, u, connOk /\ queryOk)
        /\ connection2(isDB, connOk, queryOk)
  /\ UNCHANGED <<vars0, vars1, varsB, rev>>

UpvoteC ==
  /\ rev = "part_002"
  /\ \E u \in UserIds2, f \in FileIds2, connOk \in BOOLEAN, queryOk \in BOOLEAN :
        /\ Upvote2(u, f, connOk /\ queryOk)
        /\ connection2(isDB, connOk, queryOk)
  /\ UNCHANGED <<vars0, vars1, varsB, rev>>

ListFilesC ==
  /\ rev = "part_002"
  /\ \E u \in UserIds2, connOk \in BOOLEAN, queryOk \in BOOLEAN :
        /\ ListFiles2(u, connOk /\ queryOk)
        /\ connection2(isDB, connOk, queryOk)
  /\ UNCHANGED <<vars0, vars1, varsB, rev>>

\* ------------------------------------------------ requests to part_001
LoginP ==
  /\ rev = "part_001"
  /\ \E n \in Names \cup {NoValue}, pw \in Passwords, anon \in BOOLEAN :
        Login1(n, pw, anon)
  /\ UNCHANGED others1

UploadP ==
  /\ rev = "part_001"
  /\ \E hasFile \in BOOLEAN, u \in UserIds1 \cup {NoId}, hasName \in BOOLEAN,
        anon \in BOOLEAN, ok \in BOOLEAN :
        Upload1(hasFile, u, hasName, anon, ok)
  /\ UNCHANGED others1

ApproveP ==
  /\ rev = "part_001"
  /\ \E f \in FileIds1, a \in UserIds1, pw \in Passwords, ok \in BOOLEAN :
        Approve1(f, a, pw, ok)
  /\ UNCHANGED others1

RejectP ==
  /\ rev = "part_001"
  /\ \E f \in FileIds1, a \in UserIds1, pw \in Passwords, ok \in BOOLEAN :
        Reject1(f, a, pw, ok)
  /\ UNCHANGED others1

DownloadP ==
  /\ rev = "part_001"
  /\ \E f \in FileIds1, u \in UserIds1, ok \in BOOLEAN : Download1(f, u, ok)
  /\ UNCHANGED others1

UpvoteP ==
  /\ rev = "part_001"
  /\ \E u \in UserIds1, f \in FileIds1, ok \in BOOLEAN : Upvote1(u, f, ok)
  /\ UNCHANGED others1

ListFilesP ==
  /\ rev = "part_001"
  /\ \E u \in UserIds1, ok \in BOOLEAN : ListFiles1(u, ok)
  /\ UNCHANGED others1

\* ------------------------------------------------ requests to backend.js
UploadS ==
  /\ rev = "backend.js"
  /\ \E attached \in BOOLEAN, mimetype \in MimeTypes, size \in Sizes,
        n \in Names \cup {NoValue}, h \in PasswordsB, ok \in Done :
        UploadFileB(attached, mimetype, size, n, h, ok)
  /\ UNCHANGED othersB

ListFilesS ==
  /\ rev = "backend.js"
  /\ \E h \in PasswordsB : ListFilesB(h)
  /\ UNCHANGED othersB

DownloadS ==
  /\ rev = "backend.js"
  /\ \E f \in FileIdsB, h \in PasswordsB, ok \in Done : DownloadB(f, h, ok)
  /\ UNCHANGED othersB

UpvoteS ==
  /\ rev = "backend.js"
  /\ \E f \in FileIdsB, ok \in Done : UpvoteB(f, ok)
  /\ UNCHANGED othersB

ApproveS ==
  /\ rev = "backend.js"
  /\ \E f \in FileIdsB, h \in PasswordsB, b \in PasswordsB, ok \in Done :
        ApproveB(f, h, b, ok)
  /\ UNCHANGED othersB

RejectS ==
  /\ rev = "backend.js"
  /\ \E f \in FileIdsB, h \in PasswordsB, b \in PasswordsB, unlinkOk \in BOOLEAN,
        ok \in Done :
        RejectB(f, h, b, unlinkOk, ok)
  /\ UNCHANGED othersB

DeleteS ==
  /\ rev = "backend.js"
  /\ \E f \in FileIdsB, h \in PasswordsB, b \in PasswordsB, n \in Names \cup {NoValue},
        unlinkOk \in BOOLEAN, ok \in Done :
        DeleteB(f, h, b, n, unlinkOk, ok)
  /\ UNCHANGED othersB

\* =====================================================================
\* Specifications
\* =====================================================================
\* Every revision starts with empty arrays and an empty data directory.
Start(db, env) == Init0 /\ Init1 /\ Init2(db) /\ InitB(env)

\* part_000: the requests of one run of the process, on a file system where
\* every write and unlink succeeds.
InitJ == rev = "part_000" /\ Start(FALSE, NoValue)

NextJ ==
  \/ AdminLoginJ \/ LoginJ \/ UploadJ \/ ApproveJ
  \/ RejectJ \/ DownloadJ \/ UpvoteJ \/ ListFilesJ \/ StatsJ

SpecJ == InitJ /\ [][NextJ]_vars

\* part_002 with the MariaDB probe failed: the in-memory branches.
InitM == rev = "part_002" /\ Start(FALSE, NoValue)

NextM ==
  \/ LoginM \/ UploadM \/ ApproveM \/ RejectM
  \/ DownloadM \/ UpvoteM \/ ListFilesM

SpecM == InitM /\ [][NextM]_vars

\* part_000 on a healthy file system, where the process may stop between two
\* requests, or inside /upvote between its two writes, and start again.
InitR == rev = "part_000" /\ Start(FALSE, NoValue)

NextR == NextJ \/ RestartJ \/ UpvoteStopJ

SpecR == InitR /\ [][NextR]_vars

\* part_000 on a file system whose writes may fail, with restarts between
\* requests.
InitF == rev = "part_000" /\ Start(FALSE, NoValue)

NextF ==
  \/ AdminLoginF \/ LoginF \/ UploadF \/ ApproveF \/ RejectF \/ UpvoteF
  \/ DownloadJ \/ ListFilesJ \/ StatsJ \/ RestartJ

SpecF == InitF /\ [][NextF]_vars

\* part_002 once the MariaDB probe has settled, either way.
InitT == rev = "part_002" /\ \E db \in BOOLEAN : Start(db, NoValue)

SpecT == InitT /\ [][NextM]_vars

\* part_002 from process start: requests are served while the MariaDB probe
\* is still pending, and the probe may succeed between any two of them.
ProbeM == rev = "part_002" /\ Probe2 /\ UNCHANGED others2

InitA == rev = "part_002" /\ Start(FALSE, NoValue)

NextA == NextM \/ ProbeM

SpecA == InitA /\ [][NextA]_vars

\* part_002 on MariaDB, with the connections its handlers take from the pool.
InitC == rev = "part_002" /\ Start(TRUE, NoValue)

NextC ==
  \/ LoginM \/ UploadC \/ ApproveC \/ RejectC
  \/ DownloadC \/ UpvoteC \/ ListFilesC

SpecC == InitC /\ [][NextC]_vars

\* The two revisions that keep vote records: a run of part_000 or a run of
\* part_002 in memory.
InitV == rev \in {"part_000", "part_002"} /\ Start(FALSE, NoValue)

NextV == NextJ \/ NextM

SpecV == InitV /\ [][NextV]_vars

\* The database-backed revisions: a run of part_001, or a run of part_002
\* whose MariaDB probe succeeded.
InitDB == rev \in {"part_001", "part_002"} /\ Start(TRUE, NoValue)

NextDB ==
  \/ LoginP \/ UploadP \/ ApproveP \/ RejectP
  \/ DownloadP \/ UpvoteP \/ ListFilesP
  \/ NextM

SpecDB == InitDB /\ [][NextDB]_vars

\* backend.js lines 186-375, deployed with ADMIN_PASSWORD set or not, on a
\* file system where meta.json can be written and an unlink may fail.
InitS ==
  /\ rev = "backend.js"
  /\ \E env \in {ADMINPASSWORD, NoValue} : Start(FALSE, env)

NextS ==
  \/ UploadS \/ ListFilesS \/ DownloadS \/ UpvoteS
  \/ ApproveS \/ RejectS \/ DeleteS

SpecS == InitS /\ [][NextS]_vars

\* =====================================================================
\* Properties
\* =====================================================================

\* C1 (part_000): GET /download serves a record to a known non-admin caller
\* exactly when the record is approved, and serves every existing record to
\* an admin caller.
C1_DownloadFollowsApproval ==
  rev = "part_000" =>
    \A f \in Ids(files0), u \in Ids(users0) :
       LET file == files0[FindIndex(files0, f)]
           user == users0[findUser0(u)]
       IN IF user.isAdmin
          THEN DownloadStatus0(f, u) = 200
          ELSE (DownloadStatus0(f, u) = 200) <=> file.isApproved

\* C2 (part_002 in memory): a download of an unapproved record answers 403
\* to every caller that is not a logged-in admin, unknown ids included, and
\* 200 to a logged-in admin; a download of an id matching no record answers
\* 404 to every caller.
C2_DownloadGate ==
  (rev = "part_002" /\ ~isDB) =>
    \A f \in FileIds2, u \in UserIds2, ok \in BOOLEAN :
       LET admin == \E i \in 1..Len(users2) : users2[i].id = u /\ users2[i].isAdmin
           recs == {i \in 1..Len(files2) : files2[i].id = f}
       IN /\ recs = {} => DownloadStatus2(f, u, ok) = 404
          /\ (recs # {} /\ \A i \in recs : ~files2[i].isApproved)
               => DownloadStatus2(f, u, ok) = IF admin THEN 200 ELSE 403

\* C2: an unapproved record, refused to a logged-in non-admin and to an
\* unknown id, served to a logged-in admin, while an unknown file id is 404.
C2_Witness ==
  /\ rev = "part_002" /\ ~isDB
  /\ \E f \in Ids(files2), a \in Ids(users2), u \in Ids(users2) :
        /\ ~files2[FindIndex(files2, f)].isApproved
        /\ users2[findUser2(a)].isAdmin /\ ~users2[findUser2(u)].isAdmin
        /\ DownloadStatus2(f, a, TRUE) = 200
        /\ DownloadStatus2(f, u, TRUE) = 403
        /\ DownloadStatus2(f, 0, TRUE) = 403
        /\ DownloadStatus2(0, a, TRUE) = 404

\* C3 (part_002 in memory): in every reachable state GET /files answers
\* exactly the set of all records to a logged-in admin and exactly the set
\* of approved records to every other caller.
C3_ListingFollowsApproval ==
  (rev = "part_002" /\ ~isDB) =>
    \A u \in UserIds2 :
       LET admin == \E i \in 1..Len(users2) : users2[i].id = u /\ users2[i].isAdmin
           all == {files2[i] : i \in 1..Len(files2)}
           listed == {visibleFiles2(u)[i] : i \in 1..Len(visibleFiles2(u))}
       IN listed = IF admin THEN all ELSE {r \in all : r.isApproved}

\* C3: an unapproved record that a logged-in admin is listed and a logged-in
\* non-admin is not.
C3_Witness ==
  /\ rev = "part_002" /\ ~isDB
  /\ \E f \in Ids(files2), a \in Ids(users2), u \in Ids(users2) :
        /\ ~files2[FindIndex(files2, f)].isApproved
        /\ users2[findUser2(a)].isAdmin /\ ~users2[findUser2(u)].isAdmin
        /\ f \in Ids(visibleFiles2(a))
        /\ f \notin Ids(visibleFiles2(u))

C5_OneUpvotePerPairDB ==
  /\ rev = "part_001" =>
       \A i \in 1..Len(files1) :
          files1[i].upvotes
            <= Cardinality({u \in UserIds1 : <<u, files1[i].id>> \in upvoted1})
  /\ (rev = "part_002" /\ isDB) =>
       \A i \in 1..Len(dbFiles2) :
          dbFiles2[i].upvotes
            <= Cardinality({u \in UserIds2 : <<u, dbFiles2[i].id>> \in upvoted2})

\* C6 (backend.js): an upload whose request does not present the admin
\* secret creates its record with approved = false, absent from the listing
\* of every caller who is not admin.
C6_NonAdminUploadPending ==
  [][
    \A n \in Names, h \in PasswordsB :
       (/\ UploadB(TRUE, n, h, TRUE)
        /\ UploadStatusB(TRUE, n, TRUE) = 200
        /\ ~(envPassword # NoValue /\ h = envPassword))
         => /\ ~filesMeta'[1].approved
            /\ \A h2 \in PasswordsB :
                  ~headerIsAdmin(h2) => filesMeta'[1].id \notin Ids(visibleFilesB(h2)')
  ]_vars

\* C7 (part_000): an upload whose uploaderId is the id of a user with
\* isAdmin = true creates its record with isApproved = true.
C7_AdminUploadApproved ==
  [][
    \A u \in Ids(users0), info \in BOOLEAN :
       (/\ users0[findUser0(u)].isAdmin
        /\ UploadStatus0(TRUE, u, info) = 200
        /\ Upload0(TRUE, u, info, TRUE))
         => files0'[Len(files0')].isApproved
  ]_vars

\* C8 (part_000): after the step of a successful approve, which turns a
\* record's isApproved from false to true, GET /files by any logged-in
\* non-admin is answered a list containing the record; after the step of a
\* successful reject, which removes the record, GET /files by any logged-in
\* caller is answered a list without it.
C8_ListAfterModeration ==
  [][
    rev = "part_000" =>
      /\ \A f \in Ids(files0) \cap Ids(files0') :
            (/\ ~files0[FindIndex(files0, f)].isApproved
             /\ files0'[FindIndex(files0', f)].isApproved)
              => \A u \in Ids(users0') :
                    ~users0'[FindIndex(users0', u)].isAdmin
                      => FilesStatus0(u)' = 200 /\ f \in Ids(visibleFiles0(u)')
      /\ \A f \in Ids(files0) \ Ids(files0') :
            \A u \in Ids(users0') :
               FilesStatus0(u)' = 200 /\ f \notin Ids(visibleFiles0(u)')
  ]_vars

\* C8: a record that an admin has approved, listed to a logged-in non-admin.
C8_Witness ==
  /\ rev = "part_000"
  /\ \E f \in Ids(files0), a \in Ids(users0), u \in Ids(users0) :
        /\ files0[FindIndex(files0, f)].isApproved
        /\ getAdminByIdAndPassword0(a, ADMINPASSWORD)
        /\ ~users0[findUser0(u)].isAdmin
        /\ FilesStatus0(u) = 200
        /\ f \in Ids(visibleFiles0(u))

C10_RejectApprovedConflicts ==
  [][
    rev = "part_000" =>
      \A f \in Ids(files0), a \in Ids(users0) :
         (/\ getAdminByIdAndPassword0(a, ADMINPASSWORD)
          /\ files0[FindIndex(files0, f)].isApproved)
           => /\ RejectStatus0(f, a, ADMINPASSWORD) \in {400, 409}
              /\ Reject0(f, a, ADMINPASSWORD, TRUE, TRUE)
                   => /\ f \in Ids(files0')
                      /\ files0'[FindIndex(files0', f)].isApproved
  ]_vars

\* C11 (part_000): POST /admin/approve by a valid admin on a record that is
\* already approved is answered 400, and a step that is such a request
\* changes neither the files array nor files.json.
C11_ApproveApprovedRefused ==
  /\ [](rev = "part_000" =>
          \A f \in Ids(files0), a \in Ids(users0) :
             (/\ users0[findUser0(a)].isAdmin
              /\ files0[FindIndex(files0, f)].isApproved)
               => ApproveStatus0(f, a, ADMINPASSWORD) = 400)
  /\ [][rev = "part_000" =>
          \A f \in Ids(files0), a \in Ids(users0), ok \in BOOLEAN :
             (/\ users0[findUser0(a)].isAdmin
              /\ files0[FindIndex(files0, f)].isApproved
              /\ Approve0(f, a, ADMINPASSWORD, ok))
               => UNCHANGED <<files0, filesFile>>
     ]_vars

\* C11: an approved record and a valid admin whose approve of it is
\* answered 400.
C11_Witness ==
  /\ rev = "part_000"
  /\ \E f \in Ids(files0), a \in Ids(users0) :
        /\ files0[FindIndex(files0, f)].isApproved
        /\ filesFile.data[FindIndex(filesFile.data, f)].isApproved
        /\ getAdminByIdAndPassword0(a, ADMINPASSWORD)
        /\ ApproveStatus0(f, a, ADMINPASSWORD) = 400

\* C12 (part_002): /admin/approve and /admin/reject are answered 403 unless
\* adminId is the id of a logged-in admin and adminPassword is the secret,
\* and every step that changes a record's approval or removes a record is
\* an approve or a reject carrying such an id and the secret.
C12_ModerationNeedsAdmin ==
  /\ [](rev = "part_002" =>
          \A f \in FileIds2, a \in UserIds2 \cup {NoId}, pw \in PasswordsB,
             ok \in BOOLEAN :
             ~(/\ \E i \in 1..Len(users2) : users2[i].id = a /\ users2[i].isAdmin
               /\ pw = ADMINPASSWORD)
               => /\ ApproveStatus2(f, a, pw, ok) = 403
                  /\ RejectStatus2(f, a, pw, ok) = 403)
  /\ [][rev = "part_002" =>
          LET rows == IF isDB THEN dbFiles2 ELSE files2
              rowsAfter == IF isDB THEN dbFiles2' ELSE files2'
              approvedIn(r) == {r[i].id : i \in {j \in 1..Len(r) : r[j].isApproved}}
          IN (\/ approvedIn(rowsAfter) # approvedIn(rows)
              \/ ~(Ids(rows) \subseteq Ids(rowsAfter)))
               => \E f \in FileIds2, a \in Ids(users2), ok \in BOOLEAN :
                     /\ users2[findUser2(a)].isAdmin
                     /\ \/ Approve2(f, a, ADMINPASSWORD, ok)
                        \/ Reject2(f, a, ADMINPASSWORD, ok)
     ]_vars

\* C12: a record that an admin has approved, while a logged-in non-admin
\* with the secret and the admin with a wrong password are both answered 403.
C12_Witness ==
  /\ rev = "part_002"
  /\ \E f \in FileIds2, a \in Ids(users2), u \in Ids(users2) :
        /\ f \in Ids(IF isDB THEN dbFiles2 ELSE files2)
        /\ (IF isDB THEN dbFiles2 ELSE files2)[1].isApproved
        /\ users2[findUser2(a)].isAdmin /\ ~users2[findUser2(u)].isAdmin
        /\ ApproveStatus2(f, u, ADMINPASSWORD, TRUE) = 403
        /\ RejectStatus2(f, u, ADMINPASSWORD, TRUE) = 403
        /\ ApproveStatus2(f, a, "wrong", TRUE) = 403
        /\ RejectStatus2(f, a, NoValue, TRUE) = 403

\* C13 (part_002, in memory): POST /upvote with a fileId that matches no
\* approved record is answered 404, whatever the caller voted for before.
C13_UpvoteUnapprovedNotFound ==
  (rev = "part_002" /\ ~isDB) =>
     \A u \in UserIds2, f \in FileIds2 :
        findApproved2(f) = 0 => UpvoteStatus2(u, f) = 404

\* C14 (backend.js): DELETE /reject/:id with the admin password on an
\* existing record answers success and removes the record, whether or not
\* deleting the stored file succeeds.
C14_RejectRemovesDespiteUnlink ==
  (rev = "backend.js" /\ envPassword = ADMINPASSWORD) =>
     \A f \in Ids(filesMeta), unlinkOk \in BOOLEAN :
        /\ RejectStatusB(f, ADMINPASSWORD, NoValue, unlinkOk, TRUE) = 200
        /\ ENABLED (/\ RejectB(f, ADMINPASSWORD, NoValue, unlinkOk, TRUE)
                    /\ f \notin Ids(filesMeta'))

\* C15 (part_002, in memory): POST /admin/reject by a valid admin with a
\* fileId that matches no record is answered 404, as approve answers it.
C15_RejectUnknownNotFound ==
  (rev = "part_002" /\ ~isDB) =>
     \A f \in FileIds2, a \in Ids(users2) :
        (users2[findUser2(a)].isAdmin /\ FindIndex(files2, f) = 0)
          => /\ ApproveStatus2(f, a, ADMINPASSWORD, TRUE) = 404
             /\ RejectStatus2(f, a, ADMINPASSWORD, TRUE) = 404

\* C16 (part_002): an upload that carries a file is answered 400 for
\* missing uploader information exactly when uploaderId, uploaderName and
\* isAnonymous are all absent.
C16_UploadRefusedIffNoUploaderInfo ==
  rev = "part_002" =>
     \A u \in UserIds2 \cup {NoId}, hasName \in BOOLEAN, isAnonymous \in BOOLEAN :
        (UploadStatus2(TRUE, u, hasName, isAnonymous, TRUE) = 400)
          <=> (u = NoId /\ ~hasName /\ ~isAnonymous)

\* C17 (part_002, in memory): a request that is answered 400, 403 or 404
\* leaves users, files and votes as they were.
C17_ErrorLeavesLedger ==
  [][(/\ rev = "part_002"
      /\ ~isDB
      /\ \/ \E n \in Names \cup {NoValue}, pw \in Passwords, anon \in BOOLEAN :
               LoginStatus2(n, anon) = 400 /\ Login2(n, pw, anon)
         \/ \E hasFile \in BOOLEAN, u \in UserIds2 \cup {NoId},
               hasName \in BOOLEAN, anon \in BOOLEAN :
               /\ UploadStatus2(hasFile, u, hasName, anon, TRUE) = 400
               /\ Upload2(hasFile, u, hasName, anon, TRUE)
         \/ \E f \in FileIds2, a \in UserIds2 \cup {NoId}, pw \in Passwords :
               \/ /\ ApproveStatus2(f, a, pw, TRUE) \in {403, 404}
                  /\ Approve2(f, a, pw, TRUE)
               \/ /\ RejectStatus2(f, a, pw, TRUE) = 403
                  /\ Reject2(f, a, pw, TRUE)
         \/ \E f \in FileIds2, u \in UserIds2 :
               \/ /\ DownloadStatus2(f, u, TRUE) \in {403, 404}
                  /\ Download2(f, u, TRUE)
               \/ /\ UpvoteStatus2(u, f) \in {400, 404}
                  /\ Upvote2(u, f, TRUE))
       => UNCHANGED <<users2, files2, votes2>>
    ]_vars

\* C18 (part_002): a record that GET /files shows to a non-admin caller is
\* still shown to that caller after every step that is not a successful
\* reject of the record, whenever the startup probe sets isDB.
C18_ApprovedStaysListed ==
  [][rev = "part_002" =>
       LET listedTo(u) ==
             {visibleFiles2(u)[i].id : i \in 1..Len(visibleFiles2(u))}
       IN \A f \in FileIds2, u \in UserIds2 \cup {NoId} :
             (/\ ~userIsAdmin2(u)
              /\ f \in listedTo(u)
              /\ ~\E a \in Ids(users2), ok \in BOOLEAN :
                    /\ RejectStatus2(f, a, ADMINPASSWORD, ok) = 200
                    /\ Reject2(f, a, ADMINPASSWORD, ok))
               => f \in listedTo(u)'
    ]_vars

\* C19 (backend.js): a request with no x-admin-password header and no
\* password in the body is not an admin request: approve, reject and delete
\* answer 401, /files shows only approved records and the download of an
\* unapproved record answers 403.
C19_NoPasswordNotAdmin ==
  rev = "backend.js" =>
     /\ \A f \in Ids(filesMeta), unlinkOk \in BOOLEAN, ok \in BOOLEAN :
           /\ ApproveStatusB(f, NoValue, NoValue, ok) = 401
           /\ RejectStatusB(f, NoValue, NoValue, unlinkOk, ok) = 401
           /\ DeleteStatusB(f, NoValue, NoValue, NoValue, unlinkOk, ok) = 401
     /\ \A i \in 1..Len(visibleFilesB(NoValue)) : visibleFilesB(NoValue)[i].approved
     /\ \A i \in 1..Len(filesMeta) :
           ~filesMeta[i].approved
             => DownloadStatusB(filesMeta[i].id, NoValue, TRUE) = 403

\* C20 as stated (part_002): the user a successful /login creates has
\* isAdmin = true exactly when the name is 'admin' in any case and the
\* password is the secret, whatever isAnonymous is.
C20_AdminIffNameAndSecret ==
  [][rev = "part_002" =>
       \A n \in Names, pw \in PasswordsB, anon \in BOOLEAN :
          (Login2(n, pw, anon) /\ Len(users2') = Len(users2) + 1)
            => (users2'[Len(users2')].isAdmin
                  <=> (n \in {"admin", "Admin"} /\ pw = ADMINPASSWORD))
    ]_vars

\* C20 amended (part_002): the user a successful /login creates has
\* isAdmin = true exactly when isAnonymous is not set, the name is 'admin'
\* in any case and the password is the secret.
C20_AdminIffNamedAdminAndSecret ==
  [][rev = "part_002" =>
       \A n \in Names, pw \in PasswordsB, anon \in BOOLEAN :
          (Login2(n, pw, anon) /\ Len(users2') = Len(users2) + 1)
            => (users2'[Len(users2')].isAdmin
                  <=> (~anon /\ n \in {"admin", "Admin"} /\ pw = ADMINPASSWORD))
    ]_vars

\* C20: two logins have happened, one that was granted admin privilege and
\* one that was not.
C20_Witness ==
  /\ rev = "part_002"
  /\ Len(users2) = 2
  /\ \E i, j \in 1..Len(users2) : users2[i].isAdmin /\ ~users2[j].isAdmin

\* C21 (part_000): no user record, in memory or in users.json, has both
\* isAnonymous and isAdmin set; a /login with isAnonymous set adds a user
\* with isAdmin = false whatever name and password it carries, and no step
\* changes a record that exists.
C21_AnonymousNeverAdmin ==
  /\ [](rev = "part_000" =>
          /\ \A i \in 1..Len(users0) :
                ~(users0[i].isAnonymous /\ users0[i].isAdmin)
          /\ \A i \in 1..Len(usersFile.data) :
                ~(usersFile.data[i].isAnonymous /\ usersFile.data[i].isAdmin))
  /\ [][rev = "part_000" =>
          /\ \A i \in 1..Len(users0) :
                i <= Len(users0') /\ users0'[i] = users0[i]
          /\ \A n \in Names \cup {NoValue}, pw \in Passwords, ok \in BOOLEAN :
                (Login0(n, pw, TRUE, ok) /\ Len(users0') = Len(users0) + 1)
                  => /\ users0'[Len(users0')].isAnonymous
                     /\ ~users0'[Len(users0')].isAdmin
     ]_vars

\* C21: an anonymous user has logged in beside an admin, and both records
\* are in users.json.
C21_Witness ==
  /\ rev = "part_000"
  /\ \E i, j \in 1..Len(users0) :
        /\ users0[i].isAnonymous /\ ~users0[i].isAdmin
        /\ users0[j].isAdmin /\ ~users0[j].isAnonymous
  /\ usersFile.data = users0

\* C22 (part_002, in memory): the upvotes of every record is a natural
\* number, and a record that exists before and after a step has at least
\* the upvotes it had.
C22_UpvotesMonotone ==
  /\ [](rev = "part_002" /\ ~isDB =>
          \A i \in 1..Len(files2) : files2[i].upvotes \in Nat)
  /\ [][rev = "part_002" /\ ~isDB =>
          \A f \in Ids(files2) \cap Ids(files2') :
             files2'[FindIndex(files2', f)].upvotes
               >= files2[FindIndex(files2, f)].upvotes
     ]_vars

\* C22: a record that two upvotes have raised to 2.
C22_Witness ==
  /\ rev = "part_002" /\ ~isDB
  /\ \E i \in 1..Len(files2) : files2[i].upvotes = 2

\* C23 (backend.js): an upload whose declared MIME type is not one of the
\* six allowed types, or whose size exceeds 10,485,760 bytes, adds no record
\* to filesMeta.
C23_UploadFiltered ==
  [][rev = "backend.js" =>
       LET allowedTypes == {"application/pdf", "application/epub+zip",
                            "audio/mpeg", "image/jpeg", "image/jpg", "image/png"}
       IN \A mimetype \in MimeTypes, size \in Sizes, n \in Names \cup {NoValue},
             h \in PasswordsB, ok \in BOOLEAN :
             (/\ mimetype \notin allowedTypes \/ size > 10485760
              /\ UploadFileB(TRUE, mimetype, size, n, h, ok))
               => filesMeta' = filesMeta
    ]_vars

\* C24 (backend.js): DELETE /delete/:id whose body names the record's
\* uploader and which carries no admin password is answered success and
\* removes the record (here with ADMIN_PASSWORD set).
C24_UploaderDeletesOwn ==
  (rev = "backend.js" /\ envPassword = ADMINPASSWORD) =>
     \A i \in 1..Len(filesMeta) :
        /\ DeleteStatusB(filesMeta[i].id, NoValue, NoValue,
                         filesMeta[i].uploader, TRUE, TRUE) = 200
        /\ ENABLED (/\ DeleteB(filesMeta[i].id, NoValue, NoValue,
                               filesMeta[i].uploader, TRUE, TRUE)
                    /\ Len(filesMeta') < Len(filesMeta))

\* C25 (part_000): the user record that POST /admin/login returns for the
\* correct password has isAdmin = true.
C25_AdminLoginReturnsAdmin ==
  rev = "part_000" =>
     (AdminLoginStatus0(ADMINPASSWORD) = 200 => existingAdmin0.isAdmin)

\* C26 (part_000): the totalUpvotes that GET /admin/stats reports equals the
\* sum of the upvotes of the records in files.
C26_TotalUpvotesIsSum ==
  rev = "part_000" =>
     LET RECURSIVE sum(_)
         sum(s) == IF s = <<>> THEN 0 ELSE Head(s).upvotes + sum(Tail(s))
     IN totalUpvotes0 = sum(files0)

\* C27 (part_000): in the state a restart loads from files.json and
\* votes.json, the upvotes of every record equals the number of votes
\* whose fileId is the record's id.
C27_ReloadedVotesMatch ==
  rev = "part_000" =>
     LET reloaded == loadData(filesFile)
         cast == loadVotes(votesFile)
         votesFor(id) ==
           BagCardinality([v \in {w \in BagToSet(cast) : w[2] = id} |-> cast[v]])
     IN \A i \in 1..Len(reloaded) : reloaded[i].upvotes = votesFor(reloaded[i].id)

\* C28 (part_002, in memory): votes are recorded only under user ids that
\* /login issued, and no record has more upvotes than users have logged in.
C28_UpvotesWithinLogins ==
  (rev = "part_002" /\ ~isDB) =>
     /\ \A u \in DOMAIN votes2 : votes2[u] # {} => u \in Ids(users2)
     /\ \A i \in 1..Len(files2) : files2[i].upvotes <= Len(users2)

\* C29 (part_000): after every request the JSON files hold what the arrays
\* hold, so that a restart loads the users, files and votes the process had
\* (a Date is loaded as the string it was written as).
C29_PersistedIsMemory ==
  rev = "part_000" =>
     /\ loadData(usersFile) = users0
     /\ loadData(filesFile) = stringifyFiles(files0)
     /\ loadVotes(votesFile) = votes0

\* C30 (part_002, isDB): when a handler has sent its response, no connection
\* it obtained with pool.getConnection() is still held.
C30_ConnectionsReleased ==
  (rev = "part_002" /\ isDB) => held2 = 0

====
